---------------------------- MODULE Spec2Model ----------------------------
(***************************************************************************)
(* Shzip: a generator that turns a set of paths into a shell script which  *)
(* recreates them (src/src/shzip/shzip.py), together with the behaviour of *)
(* the generated script when a POSIX shell runs it.                        *)
(*                                                                         *)
(* Text is modelled as it is in the program: a path (Python str) is a      *)
(* sequence of one-character strings, file contents (Python bytes) are     *)
(* sequences of integers 0..255.  The archive is the sequence of pieces    *)
(* the program writes; a newline is a piece of its own (NL), so the lines  *)
(* the extracting shell sees are the pieces between two NL.                *)
(***************************************************************************)
EXTENDS Integers, Sequences, FiniteSets, TLC

\* ------------------------------------------------------------------ bounds

\* The largest number of paths given on the command line.
MaxPaths == 2

\* ------------------------------------------------------- generic helpers

Last(s) == s[Len(s)]

Range(s) == { s[i] : i \in 1..Len(s) }

RECURSIVE SeqMin(_)
SeqMin(s) ==
    IF Len(s) = 1 THEN s[1]
    ELSE LET m == SeqMin(Tail(s)) IN IF s[1] < m THEN s[1] ELSE m

RECURSIVE SeqMax(_)
SeqMax(s) ==
    IF Len(s) = 1 THEN s[1]
    ELSE LET m == SeqMax(Tail(s)) IN IF s[1] > m THEN s[1] ELSE m

\* All orders in which the elements of a set can be iterated.
Orders(S) ==
    { s \in [1..Cardinality(S) -> S] : \A x \in S : \E i \in DOMAIN s : s[i] = x }

IsPrefix(p, s) == Len(p) <= Len(s) /\ SubSeq(s, 1, Len(p)) = p

\* ----------------------------------------------------- the source host

\* The paths of the generation host's working directory.
P_a   == <<"a">>
P_af  == <<"a", "/", "f">>
P_ab  == <<"a", "/", "b">>
P_abg == <<"a", "/", "b", "/", "g">>
P_l   == <<"l">>
P_e   == <<"e">>
P_dp  == <<".", "p">>
P_p   == <<"p">>
\* The same file a/f, spelled with a leading "./" on the command line.
P_daf == <<".", "/", "a", "/", "f">>

\* What may be named on the command line.
PathArgs == { P_a, P_daf, P_abg, P_l, P_e, P_dp, P_p }

\* Byte strings used as file contents.
B_A      == <<65>>                              \* "A"
B_B      == <<66>>                              \* "B"
B_Dollar == <<36, 65>>                          \* "$A"
B_Bslash == <<92, 92>>                          \* two backslashes
B_Btick  == <<96, 65, 96>>                      \* "`A`"
B_Nl     == <<65, 10>>                          \* "A\n"
B_High   == <<200>>                             \* one byte >= 128
B_Eof    == <<83, 72, 90, 73, 80, 95, 69, 79, 70>>  \* "SHZIP_EOF"

ContentSamples == { <<>>, B_A, B_Dollar, B_Bslash, B_Btick, B_Nl, B_High, B_Eof }

\* The kernel's resolution of a relative path: leading "./" are skipped.
RECURSIVE Resolve(_)
Resolve(path) ==
    IF Len(path) >= 2 /\ path[1] = "." /\ path[2] = "/"
    THEN Resolve(SubSeq(path, 3, Len(path)))
    ELSE path

\* The type of the entry itself (what lstat reports).
LKind(path) ==
    LET r == Resolve(path) IN
    CASE r \in { P_a, P_ab, P_e }          -> "dir"
      [] r \in { P_af, P_abg, P_dp, P_p }  -> "reg"
      [] r = P_l                           -> "lnk"
      [] OTHER                             -> "none"

\* os.readlink: the literal text of the link l, which points at a/f.
Readlink(path) == P_af

\* The regular file a path leads to, links followed.
Follow(path) == IF Resolve(path) = P_l THEN P_af ELSE Resolve(path)

\* os.stat(path, follow_symlinks=dereference).st_mode, as a type.
Stat(path, dereference) ==
    IF dereference THEN LKind(Follow(path)) ELSE LKind(path)

\* os.listdir: the children of a directory, by name.
Listdir(path) ==
    LET r == Resolve(path) IN
    CASE r = P_a  -> << <<"f">>, <<"b">> >>
      [] r = P_ab -> << <<"g">> >>
      [] OTHER    -> << >>

\* os.path.join(path, child).
Join(path, child) ==
    IF path = <<>> THEN child
    ELSE IF Last(path) = "/" THEN path \o child
    ELSE path \o <<"/">> \o child

RECURSIVE RStripSlash(_)
RStripSlash(s) ==
    IF s # <<>> /\ Last(s) = "/" THEN RStripSlash(SubSeq(s, 1, Len(s) - 1)) ELSE s

\* os.path.dirname(path).
Dirname(path) ==
    LET slashes == { i \in 1..Len(path) : path[i] = "/" }
        i    == IF slashes = {} THEN 0 ELSE CHOOSE k \in slashes : \A j \in slashes : j <= k
        head == SubSeq(path, 1, i)
    IN IF head # <<>> /\ Range(head) # {"/"} THEN RStripSlash(head) ELSE head

\* str.lstrip("./"): every leading character that is "." or "/" is removed.
RECURSIVE LStrip(_)
LStrip(path) ==
    IF path # <<>> /\ path[1] \in {".", "/"} THEN LStrip(Tail(path)) ELSE path


\* ------------------------------------------------------- path resolver

\* "path in symlinks": the set holds (path, target) tuples, so a str is never
\* a member of it.
InSymlinks(path, symlinks) == FALSE

\* process_path: classify one path into the three sets.  The order in which
\* the children of one directory are visited does not change the result (a
\* directory is tested before any of its descendants records it), so they are
\* visited in Listdir's order.
RECURSIVE process_path(_, _, _), process_children(_, _, _, _)
process_path(path, dereference, sets) ==
    IF \/ path \in sets.files
       \/ path \in sets.directories
       \/ InSymlinks(path, sets.symlinks)
    THEN sets
    ELSE LET mode == Stat(path, dereference) IN
         CASE mode = "lnk" ->
                [sets EXCEPT !.symlinks    = @ \cup { <<path, Readlink(path)>> },
                             !.directories = @ \cup { Dirname(path) }]
           [] mode = "reg" ->
                [sets EXCEPT !.files       = @ \cup { path },
                             !.directories = @ \cup { Dirname(path) }]
           [] mode = "dir" ->
                process_children(path, Listdir(path), dereference, sets)
           [] OTHER -> sets

process_children(path, children, dereference, sets) ==
    IF children = <<>> THEN sets
    ELSE process_children(path, Tail(children), dereference,
             process_path(Join(path, Head(children)), dereference, sets))

\* ------------------------------------------------------ content encoder

\* The external compressors, as opaque invertible filters: the codec's magic
\* number followed by the data.
Magic(algorithm) ==
    CASE algorithm = "gzip"  -> <<31, 139>>
      [] algorithm = "bzip2" -> <<66, 90, 104>>
      [] algorithm = "xz"    -> <<253, 55, 122, 88, 90, 0>>

Compress(algorithm, bytes) == Magic(algorithm) \o bytes

Decompress(algorithm, bytes) ==
    IF IsPrefix(Magic(algorithm), bytes)
    THEN [ok |-> TRUE,  bytes |-> SubSeq(bytes, Len(Magic(algorithm)) + 1, Len(bytes))]
    ELSE [ok |-> FALSE, bytes |-> <<>>]

\* The base64 alphabet: A-Z a-z 0-9 + /
B64Char(i) ==
    IF i < 26 THEN 65 + i
    ELSE IF i < 52 THEN 97 + (i - 26)
    ELSE IF i < 62 THEN 48 + (i - 52)
    ELSE IF i = 62 THEN 43 ELSE 47

B64Pad == 61

\* base64.b64encode
RECURSIVE b64encode(_)
b64encode(bytes) ==
    IF bytes = <<>> THEN <<>>
    ELSE IF Len(bytes) = 1 THEN
        LET n == bytes[1] * 65536 IN
        << B64Char(n \div 262144), B64Char((n \div 4096) % 64), B64Pad, B64Pad >>
    ELSE IF Len(bytes) = 2 THEN
        LET n == bytes[1] * 65536 + bytes[2] * 256 IN
        << B64Char(n \div 262144), B64Char((n \div 4096) % 64),
           B64Char((n \div 64) % 64), B64Pad >>
    ELSE
        LET n == bytes[1] * 65536 + bytes[2] * 256 + bytes[3] IN
        << B64Char(n \div 262144), B64Char((n \div 4096) % 64),
           B64Char((n \div 64) % 64), B64Char(n % 64) >>
        \o b64encode(SubSeq(bytes, 4, Len(bytes)))

B64Index(c) == CHOOSE i \in 0..63 : B64Char(i) = c

IsB64(c) == \E i \in 0..63 : B64Char(i) = c

\* "base64 -d" of the generated script.
RECURSIVE b64decode(_)
b64decode(text) ==
    IF text = <<>> THEN [ok |-> TRUE, bytes |-> <<>>]
    ELSE IF Len(text) < 4 \/ ~IsB64(text[1]) \/ ~IsB64(text[2])
        THEN [ok |-> FALSE, bytes |-> <<>>]
    ELSE
        LET a == B64Index(text[1])
            b == B64Index(text[2])
            rest == b64decode(SubSeq(text, 5, Len(text)))
        IN
        IF text[3] = B64Pad /\ text[4] = B64Pad THEN
            [ok |-> Len(text) = 4, bytes |-> << (a * 4 + b \div 16) % 256 >>]
        ELSE IF ~IsB64(text[3]) THEN [ok |-> FALSE, bytes |-> <<>>]
        ELSE IF text[4] = B64Pad THEN
            LET c == B64Index(text[3]) IN
            [ok |-> Len(text) = 4,
             bytes |-> << (a * 4 + b \div 16) % 256, (b * 16 + c \div 4) % 256 >>]
        ELSE IF ~IsB64(text[4]) THEN [ok |-> FALSE, bytes |-> <<>>]
        ELSE
            LET c == B64Index(text[3])
                d == B64Index(text[4])
            IN [ok |-> rest.ok,
                bytes |-> << (a * 4 + b \div 16) % 256, (b * 16 + c \div 4) % 256,
                             (c * 64 + d) % 256 >> \o rest.bytes]

\* The compression option of the parsed arguments ("none" when no flag is set).
Compression(arguments) ==
    IF arguments.gzip THEN "gzip"
    ELSE IF arguments.bzip2 THEN "bzip2"
    ELSE IF arguments.xz THEN "xz"
    ELSE "none"

\* process_file, lines 51-84: the payload of a non-empty file and the filter
\* that inverts it.
Transform(contents, arguments) ==
    LET algorithm  == Compression(arguments)
        compressed == IF algorithm = "none" THEN contents
                      ELSE Compress(algorithm, contents)
        encode     == SeqMin(compressed) <= 32 \/ SeqMax(compressed) >= 128
    IN [payload       |-> IF encode THEN b64encode(compressed) ELSE compressed,
        decoding      |-> encode,
        decompression |-> algorithm]

\* ------------------------------------------------- termination tokens

\* os.urandom(10).hex() is 20 hexadecimal digits.
TokenLen == 20

\* Two of the tokens the random source can return: "00...0" and "ff...f".
RandomTokens == { [i \in 1..TokenLen |-> 48], [i \in 1..TokenLen |-> 102] }

\* The fixed token of reproducible mode.
SHZIP_EOF == B_Eof

\* lines 86-91: the tokens a file block may get.
EofMagic(arguments) ==
    IF arguments.reproducable THEN { SHZIP_EOF } ELSE RandomTokens

\* ------------------------------------------------------ pieces written

Piece(op, dest, arg, bytes, filter) ==
    [op |-> op, dest |-> dest, arg |-> arg, bytes |-> bytes, filter |-> filter]

NoFilter == [decoding |-> FALSE, decompression |-> "none"]

\* One newline byte.
NL == Piece("NL", <<>>, <<>>, <<>>, NoFilter)

\* '#!{shell}'
Shebang(shell) == Piece("shebang", <<>>, shell, <<>>, NoFilter)

\* '( which a || which b ) || echo Unable to find prerequisites ...; exit 127'
Guard(algorithm) == Piece("guard", <<>>, <<>>, <<>>, [NoFilter EXCEPT !.decompression = algorithm])

\* 'test -z "$TARGET" && TARGET={target}'
TargetLine(target) == Piece("target", <<>>, target, <<>>, NoFilter)

\* 'mkdir -p $TARGET/{dest}'
Mkdir(dest) == Piece("mkdir", dest, <<>>, <<>>, NoFilter)

\* 'echo > $TARGET/{dest}'
Echo(dest) == Piece("echo", dest, <<>>, <<>>, NoFilter)

\* '( head -c -1 | {filter or "cat"} ) > $TARGET/{dest} << {eof_magic}'
Header(dest, filter, eof_magic) == Piece("header", dest, <<>>, eof_magic, filter)

\* The bytes of a payload, written as they are.
Body(contents) == Piece("body", <<>>, <<>>, contents, NoFilter)

\* The termination token on the line that ends the block.
Eof(eof_magic) == Piece("eof", <<>>, <<>>, eof_magic, NoFilter)

\* 'ln -s {target} $TARGET/{dest}'
Ln(target, dest) == Piece("ln", dest, target, <<>>, NoFilter)

\* process_file: what is written for one file with the given contents.
process_file(path, contents, arguments, eof_magic) ==
    IF contents = <<>>
    THEN << Echo(LStrip(path)) >>
    ELSE LET t == Transform(contents, arguments) IN
         << Header(LStrip(path),
                   [decoding |-> t.decoding, decompression |-> t.decompression],
                   eof_magic), NL,
            Body(t.payload),
            NL, Eof(eof_magic), NL >>

\* check_prerequisites: raises when the argument namespace has no
\* skip_prerequisites attribute; otherwise writes the guard unless skipped.
check_prerequisites(algorithm, arguments) ==
    IF "skip_prerequisites" \notin DOMAIN arguments
    THEN [raised |-> TRUE, written |-> <<>>]
    ELSE IF arguments["skip_prerequisites"]
    THEN [raised |-> FALSE, written |-> <<>>]
    ELSE [raised |-> FALSE, written |-> << Guard(algorithm) >>]

\* sorted(..., key=len) of a sequence: non-decreasing length.
IsSortedByLen(order) ==
    \A i, j \in DOMAIN order : i < j => Len(order[i]) <= Len(order[j])

\* The directories in the set's own iteration order, not sorted.
UnsortedDirs(directories) == Orders(directories)

\* sorted(directories_to_create, key=len): the sort is stable over the set's
\* iteration order, so entries of equal length come in any order.
SortedByLen(directories) == { order \in Orders(directories) : IsSortedByLen(order) }

\* ------------------------------------------------------------- state

VARIABLES
    arguments,              \* the parsed command line (argparse.Namespace)
    disk,                   \* contents of the source host's regular files
    paths_pending,          \* paths of paths_to_process not yet classified
    files_to_dump,          \* set of paths
    directories_to_create,  \* set of paths
    symlinks_to_link,       \* set of <<path, target>>
    pc,                     \* where main is; then where the script's run is
    opened,                 \* the output destination has been opened
    output,                 \* what has been written to it
    dirs_pending,           \* the sorted directories still to be written
    files_pending,          \* files still to be written
    symlinks_pending,       \* symlinks still to be written
    run,                    \* 1 for the first generation, 2 for a repetition
    archive_1,              \* the archive of the first generation
    lines_left,             \* extraction: the script lines not yet read
    root,                   \* extraction: the value of $TARGET
    extracted,              \* extraction: what exists under the root
    decoder_found,          \* extraction: the host has the decompressor
    status                  \* extraction: exit status of the last command

vars == << arguments, disk, paths_pending, files_to_dump, directories_to_create,
           symlinks_to_link, pc, opened, output, dirs_pending, files_pending,
           symlinks_pending, run, archive_1, lines_left, root, extracted,
           decoder_found, status >>

extract_vars == << lines_left, root, extracted, decoder_found, status >>

RegularFiles == { P_af, P_abg, P_dp, P_p }

\* open(path, "rb").read(): links are followed.
Read(path) == disk[Follow(path)]

\* parser.parse_args(): the defaults of --shell and --target, the flags, and
\* the positional paths.  The compression flags are mutually exclusive.
Namespaces ==
    { [reproducable |-> r,
       shell        |-> <<"/", "b", "i", "n", "/", "s", "h">>,
       target       |-> <<".">>,
       gzip         |-> c = "gzip",
       bzip2        |-> c = "bzip2",
       xz           |-> c = "xz",
       dereference  |-> h,
       paths        |-> ps] :
      r \in BOOLEAN, h \in BOOLEAN, c \in {"none", "gzip", "bzip2", "xz"},
      ps \in { x \in SUBSET PathArgs : Cardinality(x) <= MaxPaths } }

\* The state in which a generation starts (lines 141-149).
Start(args) ==
    /\ paths_pending = args.paths
    /\ files_to_dump = {}
    /\ directories_to_create = {}
    /\ symlinks_to_link = {}
    /\ pc = "assert"
    /\ opened = FALSE
    /\ output = <<>>
    /\ dirs_pending = <<>>
    /\ files_pending = {}
    /\ symlinks_pending = {}

Init ==
    /\ arguments \in Namespaces
    /\ disk \in { [f \in RegularFiles |->
                     CASE f = P_af  -> x
                       [] f = P_abg -> B_A
                       [] f = P_dp  -> B_A
                       [] f = P_p   -> B_B] :
                  x \in ContentSamples }
    /\ Start(arguments)
    /\ run = 1
    /\ archive_1 = <<>>
    /\ lines_left = <<>>
    /\ root = <<>>
    /\ extracted = {}
    /\ decoder_found = FALSE
    /\ status = 0

\* ------------------------------------------------------- the generator

\* line 158: assert paths_to_process
AssertPaths ==
    /\ pc = "assert"
    /\ pc' = IF paths_pending = {} THEN "failed" ELSE "classify"
    /\ UNCHANGED << arguments, disk, paths_pending, files_to_dump,
                    directories_to_create, symlinks_to_link, opened, output,
                    dirs_pending, files_pending, symlinks_pending, run, archive_1 >>
    /\ UNCHANGED extract_vars

\* lines 165-166: one iteration of the loop over the set paths_to_process.
ProcessPath ==
    /\ pc = "classify"
    /\ \E path \in paths_pending :
         LET sets == process_path(path, arguments.dereference,
                         [files       |-> files_to_dump,
                          directories |-> directories_to_create,
                          symlinks    |-> symlinks_to_link])
         IN /\ files_to_dump' = sets.files
            /\ directories_to_create' = sets.directories
            /\ symlinks_to_link' = sets.symlinks
            /\ paths_pending' = paths_pending \ { path }
    /\ UNCHANGED << arguments, disk, pc, opened, output, dirs_pending,
                    files_pending, symlinks_pending, run, archive_1 >>
    /\ UNCHANGED extract_vars

\* lines 168-176: open the output and write the interpreter line.
WriteShebang ==
    /\ pc = "classify"
    /\ paths_pending = {}
    /\ opened' = TRUE
    /\ output' = << Shebang(arguments.shell), NL >>
    /\ pc' = "prerequisites"
    /\ UNCHANGED << arguments, disk, paths_pending, files_to_dump,
                    directories_to_create, symlinks_to_link, dirs_pending,
                    files_pending, symlinks_pending, run, archive_1 >>
    /\ UNCHANGED extract_vars

\* lines 178-187: the decompressor check, when a compression flag is set.
CheckPrerequisites ==
    /\ pc = "prerequisites"
    /\ LET check == IF Compression(arguments) = "none"
                    THEN [raised |-> FALSE, written |-> <<>>]
                    ELSE check_prerequisites(Compression(arguments), arguments)
       IN /\ output' = output \o check.written
          /\ pc' = IF check.raised THEN "failed" ELSE "target"
    /\ UNCHANGED << arguments, disk, paths_pending, files_to_dump,
                    directories_to_create, symlinks_to_link, opened, dirs_pending,
                    files_pending, symlinks_pending, run, archive_1 >>
    /\ UNCHANGED extract_vars

\* lines 189-193: the root-resolution line; then the loops' iterables are
\* evaluated.
WriteTarget ==
    /\ pc = "target"
    /\ output' = output \o << TargetLine(arguments.target), NL >>
    /\ dirs_pending' \in SortedByLen(directories_to_create)
    /\ files_pending' = files_to_dump
    /\ symlinks_pending' = symlinks_to_link
    /\ pc' = "emit"
    /\ UNCHANGED << arguments, disk, paths_pending, files_to_dump,
                    directories_to_create, symlinks_to_link, opened, run, archive_1 >>
    /\ UNCHANGED extract_vars

\* lines 193-194: one directory-creation command.
WriteDirectory ==
    /\ pc = "emit"
    /\ dirs_pending # <<>>
    /\ output' = output \o << Mkdir(LStrip(Head(dirs_pending))), NL >>
    /\ dirs_pending' = Tail(dirs_pending)
    /\ UNCHANGED << arguments, disk, paths_pending, files_to_dump,
                    directories_to_create, symlinks_to_link, pc, opened,
                    files_pending, symlinks_pending, run, archive_1 >>
    /\ UNCHANGED extract_vars

\* lines 197-199: one file, in the set's iteration order.
ArchiveFile ==
    /\ pc = "emit"
    /\ dirs_pending = <<>>
    /\ \E file_to_dump \in files_pending, eof_magic \in EofMagic(arguments) :
         /\ output' = output \o
                process_file(file_to_dump, Read(file_to_dump), arguments, eof_magic)
         /\ files_pending' = files_pending \ { file_to_dump }
    /\ UNCHANGED << arguments, disk, paths_pending, files_to_dump,
                    directories_to_create, symlinks_to_link, pc, opened,
                    dirs_pending, symlinks_pending, run, archive_1 >>
    /\ UNCHANGED extract_vars

\* lines 201-203: one symlink, in the set's iteration order.
LinkSymlink ==
    /\ pc = "emit"
    /\ dirs_pending = <<>>
    /\ files_pending = {}
    /\ \E link \in symlinks_pending :
         /\ output' = output \o << Ln(link[2], LStrip(link[1])), NL >>
         /\ symlinks_pending' = symlinks_pending \ { link }
    /\ UNCHANGED << arguments, disk, paths_pending, files_to_dump,
                    directories_to_create, symlinks_to_link, pc, opened,
                    dirs_pending, files_pending, run, archive_1 >>
    /\ UNCHANGED extract_vars

\* main returns.
Finish ==
    /\ pc = "emit"
    /\ dirs_pending = <<>>
    /\ files_pending = {}
    /\ symlinks_pending = {}
    /\ pc' = "done"
    /\ UNCHANGED << arguments, disk, paths_pending, files_to_dump,
                    directories_to_create, symlinks_to_link, opened, output,
                    dirs_pending, files_pending, symlinks_pending, run, archive_1 >>
    /\ UNCHANGED extract_vars

Generate ==
    \/ AssertPaths
    \/ ProcessPath
    \/ WriteShebang
    \/ CheckPrerequisites
    \/ WriteTarget
    \/ WriteDirectory
    \/ ArchiveFile
    \/ LinkSymlink
    \/ Finish

\* The same command line again, on the same files (a second process).
Regenerate ==
    /\ pc = "done"
    /\ run = 1
    /\ run' = 2
    /\ archive_1' = output
    /\ paths_pending' = arguments.paths
    /\ files_to_dump' = {}
    /\ directories_to_create' = {}
    /\ symlinks_to_link' = {}
    /\ pc' = "assert"
    /\ opened' = FALSE
    /\ output' = <<>>
    /\ dirs_pending' = <<>>
    /\ files_pending' = {}
    /\ symlinks_pending' = {}
    /\ UNCHANGED << arguments, disk >>
    /\ UNCHANGED extract_vars

NextTwice == Generate \/ Regenerate

SpecTwice == Init /\ [][NextTwice]_vars

SpecGenerate == Init /\ [][Generate]_vars


\* ------------------------------------------- the generated script, run

\* str.encode() of the characters that occur in paths and command words.
Ord(c) ==
    CASE c = " " -> 32  [] c = "-" -> 45  [] c = "." -> 46  [] c = "/" -> 47
      [] c = "D" -> 68  [] c = "a" -> 97  [] c = "b" -> 98  [] c = "c" -> 99
      [] c = "e" -> 101 [] c = "f" -> 102 [] c = "g" -> 103 [] c = "h" -> 104
      [] c = "i" -> 105 [] c = "l" -> 108 [] c = "n" -> 110 [] c = "o" -> 111
      [] c = "p" -> 112 [] c = "s" -> 115

Encode(text) == [i \in 1..Len(text) |-> Ord(text[i])]

\* The lines of the script: the pieces between newlines.  What follows the
\* last newline is a last line without one.
RECURSIVE SplitLines(_, _)
SplitLines(pieces, line) ==
    IF pieces = <<>> THEN (IF line = <<>> THEN <<>> ELSE << line >>)
    ELSE IF Head(pieces) = NL THEN << line >> \o SplitLines(Tail(pieces), <<>>)
    ELSE SplitLines(Tail(pieces), Append(line, Head(pieces)))

Lines(pieces) == SplitLines(pieces, <<>>)

\* The text of a line when it is one payload or one token, as the shell
\* reads it while looking for the end of a here-document.
IsText(line) == Len(line) = 1 /\ line[1].op \in {"body", "eof"}

\* The lines of a here-document: those before the first line that equals the
\* delimiter.  The token line of the block's trailer ends the search at the
\* latest, so it never runs into a command line.
RECURSIVE HereLines(_, _)
HereLines(lines, delimiter) ==
    IF lines = <<>> THEN [found |-> FALSE, body |-> <<>>, rest |-> <<>>]
    ELSE IF IsText(Head(lines)) /\ Head(lines)[1].bytes = delimiter
    THEN [found |-> TRUE, body |-> <<>>, rest |-> Tail(lines)]
    ELSE IF ~IsText(Head(lines))
    THEN [found |-> FALSE, body |-> <<>>, rest |-> <<>>]
    ELSE LET more == HereLines(Tail(lines), delimiter) IN
         [found |-> more.found,
          body  |-> Head(lines)[1].bytes \o <<10>> \o more.body,
          rest  |-> more.rest]

IsNameStart(b) == (b >= 65 /\ b <= 90) \/ (b >= 97 /\ b <= 122) \/ b = 95

IsNameChar(b) == IsNameStart(b) \/ (b >= 48 /\ b <= 57)

RECURSIVE SkipName(_)
SkipName(text) ==
    IF text # <<>> /\ IsNameChar(text[1]) THEN SkipName(Tail(text)) ELSE text

\* What follows the backquote that closes a command substitution; <<-1>> when
\* none closes it.
RECURSIVE AfterBackquote(_)
AfterBackquote(text) ==
    IF text = <<>> THEN <<-1>>
    ELSE IF text[1] = 96 THEN Tail(text)
    ELSE IF text[1] = 92 /\ Len(text) >= 2 THEN AfterBackquote(SubSeq(text, 3, Len(text)))
    ELSE AfterBackquote(Tail(text))

\* The shell's treatment of a here-document whose delimiter is not quoted
\* ("<< {eof_magic}"): a backslash before a backslash, "$" or "`" is removed,
\* "$NAME" is replaced by the variable's value, "`command`" by the command's
\* output.  The extraction host sets no variable and has no command that a
\* payload of ContentSamples names, so both are replaced by nothing.  A
\* backquote that nothing closes, or a backslash before the newline, leaves
\* the document without an end: ok is FALSE.
RECURSIVE Expand(_)
Expand(text) ==
    IF text = <<>> THEN [ok |-> TRUE, bytes |-> <<>>]
    ELSE IF text[1] = 92 /\ Len(text) >= 2 /\ text[2] \in {92, 36, 96} THEN
        LET r == Expand(SubSeq(text, 3, Len(text))) IN
        [ok |-> r.ok, bytes |-> << text[2] >> \o r.bytes]
    ELSE IF text[1] = 92 /\ Len(text) >= 2 /\ text[2] = 10 THEN
        [ok |-> FALSE, bytes |-> <<>>]
    ELSE IF text[1] = 36 /\ Len(text) >= 2 /\ IsNameStart(text[2]) THEN
        Expand(SkipName(Tail(text)))
    ELSE IF text[1] = 96 THEN
        IF AfterBackquote(Tail(text)) = <<-1>>
        THEN [ok |-> FALSE, bytes |-> <<>>]
        ELSE Expand(AfterBackquote(Tail(text)))
    ELSE
        LET r == Expand(Tail(text)) IN
        [ok |-> r.ok, bytes |-> << text[1] >> \o r.bytes]

\* "head -c -1": all but the last byte.
HeadDropLast(bytes) ==
    IF bytes = <<>> THEN <<>> ELSE SubSeq(bytes, 1, Len(bytes) - 1)

\* The filter of a header, applied: "base64 -d", then the decompressor
\* "( primary -d || alias )", which needs one of the two on the host.
ApplyFilter(filter, bytes, found) ==
    LET decoded == IF filter.decoding THEN b64decode(bytes)
                   ELSE [ok |-> TRUE, bytes |-> bytes]
    IN IF ~decoded.ok THEN [ok |-> FALSE, bytes |-> <<>>]
       ELSE IF filter.decompression = "none" THEN decoded
       ELSE IF ~found THEN [ok |-> FALSE, bytes |-> <<>>]
       ELSE Decompress(filter.decompression, decoded.bytes)

\* What exists under the extraction root: a set of entries, one per path.
Entry(path, type, bytes, target) ==
    [path |-> path, type |-> type, bytes |-> bytes, target |-> target]

Exists(fs, path) == path = <<>> \/ \E e \in fs : e.path = path

TypeOf(fs, path) ==
    IF path = <<>> THEN "dir" ELSE (CHOOSE e \in fs : e.path = path).type

IsDir(fs, path) == Exists(fs, path) /\ TypeOf(fs, path) = "dir"

\* The path itself and the directories above it.
Prefixes(path) ==
    { SubSeq(path, 1, i) : i \in { j \in 1..Len(path) : j = Len(path) \/ path[j + 1] = "/" } }

\* "mkdir -p $TARGET/{dest}"
DoMkdir(fs, dest) ==
    IF \E q \in Prefixes(dest) : Exists(fs, q) /\ ~IsDir(fs, q)
    THEN [fs |-> fs, status |-> 1]
    ELSE [fs |-> fs \cup { Entry(q, "dir", <<>>, <<>>) : q \in Prefixes(dest) },
          status |-> 0]

\* "> $TARGET/{dest}": the file is created or emptied, then written.
DoWrite(fs, dest, bytes) ==
    IF dest = <<>> \/ ~IsDir(fs, Dirname(dest)) \/ IsDir(fs, dest)
    THEN [fs |-> fs, status |-> 2]
    ELSE [fs |-> { e \in fs : e.path # dest } \cup { Entry(dest, "file", bytes, <<>>) },
          status |-> 0]

\* "ln -s {target} $TARGET/{dest}"
DoLn(fs, target, dest) ==
    IF Exists(fs, dest) \/ ~IsDir(fs, Dirname(dest))
    THEN [fs |-> fs, status |-> 1]
    ELSE [fs |-> fs \cup { Entry(dest, "symlink", <<>>, target) }, status |-> 0]

\* The first word of the command a piece starts with.
FirstWord(piece) ==
    CASE piece.op = "echo"   -> <<"e", "c", "h", "o">>
      [] piece.op = "ln"     -> <<"l", "n">>
      [] OTHER               -> <<>>

\* A line that starts with "echo > $TARGET/{dest}" and has no newline after
\* it: the next command's first word is part of the file name, and "echo"
\* prints the words that are left into the last file named by a ">".
RECURSIVE DoEcho(_, _, _)
DoEcho(fs, line, at) ==
    IF Len(line) = 1 THEN DoWrite(fs, line[1].dest, <<10>>)
    ELSE
        LET dest == line[1].dest \o FirstWord(line[2]) IN
        IF line[2].op = "ln" THEN
            DoWrite(fs, dest,
                    Encode(<<"-", "s", " ">> \o line[2].arg \o <<" ">>
                           \o at \o <<"/">> \o line[2].dest) \o <<10>>)
        ELSE
            LET first == DoWrite(fs, dest, <<>>) IN
            IF first.status # 0 THEN first ELSE DoEcho(first.fs, Tail(line), at)

\* One command line of the script, read and run by the shell.  The result is
\* the state of the run after it: stop is TRUE when the shell exits there.
ExecLine(line, rest, fs, at, found) ==
    LET op == IF line = <<>> THEN "empty" ELSE line[1].op
        same(st) == [fs |-> fs, root |-> at, rest |-> rest, status |-> st, stop |-> FALSE]
    IN
    CASE op \in {"empty", "shebang"} -> same(0)
      [] op = "guard" ->
            \* '( which a || which b ) || echo ...; exit 127test -z ...':
            \* the exit is run whatever "which" finds, its operand is not a
            \* number, and the shell stops with status 2
            [fs |-> fs, root |-> at, rest |-> rest, status |-> 2, stop |-> TRUE]
      [] op = "target" ->
            IF at = <<>>
            THEN [fs |-> fs, root |-> line[1].arg, rest |-> rest, status |-> 0, stop |-> FALSE]
            ELSE same(1)
      [] op = "mkdir" ->
            LET r == DoMkdir(fs, line[1].dest) IN
            [fs |-> r.fs, root |-> at, rest |-> rest, status |-> r.status, stop |-> FALSE]
      [] op = "ln" ->
            LET r == DoLn(fs, line[1].arg, line[1].dest) IN
            [fs |-> r.fs, root |-> at, rest |-> rest, status |-> r.status, stop |-> FALSE]
      [] op \in {"body", "eof"} ->
            \* a line of payload or a token read as a command: not found
            same(127)
      [] op = "header" ->
            LET here == HereLines(rest, line[1].bytes)
                text == Expand(here.body)
                data == ApplyFilter(line[1].filter, HeadDropLast(text.bytes), found)
                r    == DoWrite(fs, line[1].dest, data.bytes)
            IN IF ~here.found \/ ~text.ok
               THEN [fs |-> fs, root |-> at, rest |-> <<>>, status |-> 2, stop |-> TRUE]
               ELSE [fs |-> r.fs, root |-> at, rest |-> here.rest,
                     status |-> IF r.status # 0 THEN r.status
                                ELSE IF data.ok THEN 0 ELSE 1,
                     stop |-> FALSE]
      [] op = "echo" ->
            IF Last(line).op = "header"
            THEN \* 'echo > $TARGET/x( head ...': a syntax error
                 [fs |-> fs, root |-> at, rest |-> rest, status |-> 2, stop |-> TRUE]
            ELSE LET r == DoEcho(fs, line, at) IN
                 [fs |-> r.fs, root |-> at, rest |-> rest, status |-> r.status, stop |-> FALSE]

\* The values $TARGET may have when the script starts: unset, or a directory.
EnvTargets == { <<>>, <<"D">> }

\* The archive is run by a shell, in an empty target directory.
StartScript ==
    /\ pc = "done"
    /\ pc' = "running"
    /\ lines_left' = Lines(output)
    /\ root' \in EnvTargets
    /\ extracted' = {}
    /\ decoder_found' \in IF Compression(arguments) = "none" THEN { FALSE } ELSE BOOLEAN
    /\ status' = 0
    /\ UNCHANGED << arguments, disk, paths_pending, files_to_dump,
                    directories_to_create, symlinks_to_link, opened, output,
                    dirs_pending, files_pending, symlinks_pending, run, archive_1 >>

\* The shell runs the next command.
RunCommand ==
    /\ pc = "running"
    /\ lines_left # <<>>
    /\ LET r == ExecLine(Head(lines_left), Tail(lines_left), extracted, root,
                          decoder_found) IN
         /\ extracted' = r.fs
         /\ decoder_found' = decoder_found
         /\ root' = r.root
         /\ status' = r.status
         /\ lines_left' = IF r.stop THEN <<>> ELSE r.rest
    /\ UNCHANGED << arguments, disk, paths_pending, files_to_dump,
                    directories_to_create, symlinks_to_link, pc, opened, output,
                    dirs_pending, files_pending, symlinks_pending, run, archive_1 >>

\* The shell reaches the end of the script, or has stopped.
ExitScript ==
    /\ pc = "running"
    /\ lines_left = <<>>
    /\ pc' = "exited"
    /\ UNCHANGED << arguments, disk, paths_pending, files_to_dump,
                    directories_to_create, symlinks_to_link, opened, output,
                    dirs_pending, files_pending, symlinks_pending, run, archive_1 >>
    /\ UNCHANGED extract_vars

Next == Generate \/ StartScript \/ RunCommand \/ ExitScript

Spec == Init /\ [][Next]_vars


\* ------------------------------------------------------------ properties

\* The generation has returned normally: the archive is complete.
Generated == pc \in {"done", "running", "exited"}

\* The destinations of the directory-creation commands written, in order.
MkdirDests(pieces) ==
    LET at == { i \in DOMAIN pieces : pieces[i].op = "mkdir" }
        nth(k) == CHOOSE i \in at : Cardinality({ j \in at : j < i }) = k - 1
    IN [k \in 1..Cardinality(at) |-> pieces[nth(k)].dest]

\* a is a directory strictly above d.
IsAncestor(a, d) == a # d /\ (a = <<>> \/ IsPrefix(a \o <<"/">>, d))

\* A file recreated by the script with exactly these bytes.
Recreated(dest, bytes) ==
    \E e \in extracted : e.path = dest /\ e.type = "file" /\ e.bytes = bytes

\* C1: every non-empty regular file archived without compression, in either
\* token mode, is recreated by the script with bytes identical to the source.
C1_RoundTrip ==
    (pc = "exited" /\ Compression(arguments) = "none") =>
        \A f \in files_to_dump :
            Read(f) # <<>> => Recreated(LStrip(f), Read(f))

\* C2: a zero-byte file is written as one direct file-creation command with
\* no here-document, and the script recreates it with exactly zero bytes,
\* whatever else is in the archive.
C2_ZeroByteFile ==
    pc = "exited" =>
        \A f \in files_to_dump :
            Read(f) = <<>> =>
                /\ \E i \in DOMAIN output : output[i] = Echo(LStrip(f))
                /\ Recreated(LStrip(f), <<>>)

\* A piece with its termination token blanked, its length kept.
Masked(piece) ==
    IF piece.op \in {"header", "eof"}
    THEN [piece EXCEPT !.bytes = [i \in 1..Len(@) |-> 0]]
    ELSE piece

\* C3: two generations from the same inputs and options give the same
\* archive when the reproducible toggle is set, and archives of equal length
\* that differ only in the per-file tokens when it is not.
C3_Deterministic ==
    (pc = "done" /\ run = 2) =>
        /\ arguments.reproducable => output = archive_1
        /\ Len(output) = Len(archive_1)
        /\ \A i \in DOMAIN output : Masked(output[i]) = Masked(archive_1[i])

\* C4 as stated: no directory-creation command precedes the command of a
\* directory that is an ancestor of its destination path.
C4_AncestorsFirst ==
    LET dests == MkdirDests(output) IN
    \A i, j \in DOMAIN dests : i < j => ~IsAncestor(dests[j], dests[i])

\* C4, amended: the directory-creation commands are written in ascending
\* length of the recorded path, so none precedes the command of a directory
\* whose recorded path is an ancestor of its own recorded path.
C4_AscendingRecordedLength ==
    pc \in {"emit", "done"} =>
        \E order \in Orders(directories_to_create) :
            /\ \A i, j \in DOMAIN order : i < j =>
                   /\ Len(order[i]) <= Len(order[j])
                   /\ ~IsAncestor(order[j], order[i])
            /\ MkdirDests(output) \o [k \in DOMAIN dirs_pending |-> LStrip(dirs_pending[k])]
                   = [k \in DOMAIN order |-> LStrip(order[k])]

\* C4's case: a directory and a directory nested in it have both been written.
C4_NestedWritten ==
    /\ pc = "done"
    /\ { P_a, P_ab } \subseteq directories_to_create
    /\ \E i, j \in DOMAIN output :
           i < j /\ output[i] = Mkdir(P_a) /\ output[j] = Mkdir(P_ab)

\* C5: when the requested paths resolve to no file and no symlink, the
\* generation fails and nothing is written to the output destination.
C5_EmptySelectionRefused ==
    ( /\ pc \notin {"assert", "classify"}
      /\ files_to_dump = {}
      /\ symlinks_to_link = {} ) =>
        pc = "failed" /\ ~opened /\ output = <<>>

\* C6: with a compression option selected and the check not skipped, the
\* archive carries the guard; the script stops there with status 127 if and
\* only if the host has neither decoder, and otherwise runs on, so that the
\* files are recreated with the bytes of the originals.
C6_PrerequisiteGuard ==
    ( /\ Compression(arguments) # "none"
      /\ files_to_dump # {}
      /\ pc \notin {"assert", "classify", "prerequisites"} ) =>
        /\ pc # "failed"
        /\ Generated =>
               \E i \in DOMAIN output : output[i] = Guard(Compression(arguments))
        /\ pc = "exited" =>
               /\ status = 127 <=> ~decoder_found
               /\ decoder_found =>
                      \A f \in files_to_dump : Recreated(LStrip(f), Read(f))

\* The relative form of a path: leading separators and leading "./" removed.
RECURSIVE RelativeForm(_)
RelativeForm(path) ==
    IF path # <<>> /\ path[1] = "/" THEN RelativeForm(Tail(path))
    ELSE IF Len(path) >= 2 /\ path[1] = "." /\ path[2] = "/"
        THEN RelativeForm(SubSeq(path, 3, Len(path)))
    ELSE IF path = <<".">> THEN <<>>
    ELSE path

\* C7: every file, directory and symlink is created at the relative form of
\* its source path, every other character kept, so that two distinct
\* relative paths never get the same destination.
C7_PathFidelity ==
    Generated =>
        /\ \A f \in files_to_dump :
               \E i \in DOMAIN output :
                   output[i].op \in {"echo", "header"} /\ output[i].dest = RelativeForm(f)
        /\ \A d \in directories_to_create :
               \E i \in DOMAIN output : output[i] = Mkdir(RelativeForm(d))
        /\ \A l \in symlinks_to_link :
               \E i \in DOMAIN output : output[i] = Ln(l[2], RelativeForm(l[1]))
        /\ \A f, g \in files_to_dump :
               RelativeForm(f) # RelativeForm(g) => LStrip(f) # LStrip(g)

\* C8: with dereference off every symlink recorded is one symlink-creation
\* command of the script, with the literal target, after every file block and
\* after the creation command of its parent directory; with dereference on
\* the link is archived as a file block with the content of its target.
C8_SymlinkFidelity ==
    Generated =>
        LET script == Lines(output) IN
        /\ ~arguments.dereference =>
               \A l \in symlinks_to_link :
                   \E i \in DOMAIN script :
                       /\ script[i] = << Ln(l[2], LStrip(l[1])) >>
                       /\ \A j \in DOMAIN script : script[j] = script[i] => j = i
                       /\ \A j \in DOMAIN script :
                              script[j][1].op \in {"echo", "header", "body", "eof"} => j < i
                       /\ \E j \in 1..(i - 1) :
                              script[j] = << Mkdir(LStrip(Dirname(l[1]))) >>
        /\ arguments.dereference =>
               /\ symlinks_to_link = {}
               /\ P_l \in arguments.paths =>
                      /\ P_l \in files_to_dump
                      /\ disk[P_af] # <<>> =>
                             \E i \in DOMAIN output :
                                 /\ output[i].op = "header"
                                 /\ output[i].dest = P_l
                                 /\ output[i + 2] =
                                        Body(Transform(disk[P_af], arguments).payload)

\* A payload with every backslash and every "$" preceded by a backslash.
RECURSIVE Escape(_)
Escape(bytes) ==
    IF bytes = <<>> THEN <<>>
    ELSE IF bytes[1] \in {92, 36} THEN << 92, bytes[1] >> \o Escape(Tail(bytes))
    ELSE << bytes[1] >> \o Escape(Tail(bytes))

\* C9: the body written between the header and the trailer of a block is the
\* transformed payload with every backslash and every "$" escaped.
C9_BodyEscaped ==
    \A i \in DOMAIN output :
        output[i].op = "header" =>
            \E f \in files_to_dump :
                /\ LStrip(f) = output[i].dest
                /\ Len(output) >= i + 2 =>
                       output[i + 2] =
                           Body(Escape(Transform(Read(f), arguments).payload))

\* C10: every command written ends with a newline before the next one is
\* written: no line of the script holds two commands.
C10_OneCommandPerLine ==
    \A line \in Range(Lines(output)) : Len(line) <= 1

=============================================================================
